---- MODULE Spec2Model ----
(***************************************************************************)
(* UserService of vod-api (src/src/user/user.service.ts).                  *)
(*                                                                         *)
(* The service is a set of async handlers over one TypeORM repository.     *)
(* Every `await this.userRepository.X(...)` is one atomic access to the    *)
(* users table; between two awaits of one request the handlers of other    *)
(* requests may run.  A request is therefore a small process whose program *)
(* counter names the next repository call of its handler.                  *)
(*                                                                         *)
(* The repository is the one the handlers call:                            *)
(*   findOne(filter)  the row whose column equals the given value, or      *)
(*                    undefined; a filter whose value is undefined matches *)
(*                    no row;                                              *)
(*   save(entity)     writes all columns of the entity to the row with the *)
(*                    entity's id, and inserts the entity when no row has  *)
(*                    that id;                                             *)
(*   update(filter, dto), delete(filter)  act on the matching rows and     *)
(*                    raise nothing when there is none;                    *)
(*   a write that would give two rows the same email or phone number is    *)
(*   refused by the table (QueryFailed) and changes nothing.               *)
(***************************************************************************)
EXTENDS Integers, FiniteSets, Sequences, TLC

\* Number of handler invocations explored in one behaviour.
MaxCalls == 3

\* Request slots of the server: each serves at most one request at a time.
Requests == {1, 2}

Emails == {"a@x.com", "b@x.com"}
PhoneNumbers == {"+1", "+2"}
Passwords == {"p", "q"}
\* Passwords given at registration.
InitialPasswords == {"p"}

\* A property that a DTO does not carry.
Undefined == "undefined"

UNVERIFIED == "UNVERIFIED"
VERIFIED == "VERIFIED"

VARIABLES
    users,      \* rows of the user table
    nextId,     \* next value of the generated primary key
    calls,      \* handler invocations so far
    req,        \* per slot: the handler it runs and that handler's locals
    reply       \* the response sent by the last step, if it ended a handler

vars == <<users, nextId, calls, req, reply>>

----------------------------------------------------------------------------
\* Values

\* `undefined` as the value of a User-typed local (findOne found nothing).
NoUser ==
    [id |-> 0, email |-> Undefined, phoneNumber |-> Undefined,
     password |-> Undefined, isEmailConfirmed |-> FALSE,
     isPhoneNumberConfirmed |-> FALSE, status |-> Undefined]

NoDto == [email |-> Undefined, phoneNumber |-> Undefined, password |-> Undefined]

CreateUserDtos ==
    [email : Emails, phoneNumber : PhoneNumbers, password : InitialPasswords]

UpdateUserDtos ==
    [email : Emails \cup {Undefined},
     phoneNumber : PhoneNumbers \cup {Undefined},
     password : {Undefined, "q"}]

UserIds == 1..(MaxCalls + 1)

\* A slot that serves no request.
Idle ==
    [op |-> "idle", pc |-> "idle", email |-> Undefined, userDto |-> NoDto,
     user |-> NoUser, log |-> <<>>]

\* The last step sent no response.
NoReply ==
    [op |-> "idle", email |-> Undefined, out |-> "none", res |-> NoUser,
     log |-> <<>>]

----------------------------------------------------------------------------
\* The repository (Persistence Port)

\* First row of a set of rows, in primary-key order.
FirstRow(rows) ==
    IF rows = {} THEN NoUser
    ELSE CHOOSE r \in rows : \A s \in rows : r.id <= s.id

FindByEmail(rows, email) == FirstRow({r \in rows : r.email = email})

FindByPhoneNumber(rows, phoneNumber) ==
    FirstRow({r \in rows : r.phoneNumber = phoneNumber})

FindById(rows, id) == FirstRow({r \in rows : r.id = id})

\* Mutant: the table declares no unique column.
UniqueOk_NoConstraint(rows) == TRUE

\* The unique columns of the user table: email and phoneNumber.
UniqueOk(rows) ==
    \A r, s \in rows :
        r.id # s.id => r.email # s.email /\ r.phoneNumber # s.phoneNumber

\* repository.create(userDto): a fresh entity with the column defaults.
NewUser(id, userDto) ==
    [id |-> id, email |-> userDto.email, phoneNumber |-> userDto.phoneNumber,
     password |-> userDto.password, isEmailConfirmed |-> FALSE,
     isPhoneNumberConfirmed |-> FALSE, status |-> UNVERIFIED]

\* repository.save(user): update the row with the entity's id when there is
\* one, insert the entity otherwise.
SaveRows(rows, user) == {r \in rows : r.id # user.id} \cup {user}

\* The properties of a DTO that are set overwrite the row's columns.
Merge(row, userDto) ==
    [row EXCEPT
        !.email = IF userDto.email = Undefined THEN @ ELSE userDto.email,
        !.phoneNumber =
            IF userDto.phoneNumber = Undefined THEN @ ELSE userDto.phoneNumber,
        !.password =
            IF userDto.password = Undefined THEN @ ELSE userDto.password]

\* repository.update({ email }, userDto)
UpdateRows(rows, email, userDto) ==
    {IF r.email = email THEN Merge(r, userDto) ELSE r : r \in rows}

\* repository.delete({ email })
DeleteRows(rows, email) == {r \in rows : r.email # email}

Affected(rows, email) == Cardinality({r \in rows : r.email = email})

\* delete userDto.password
StripPassword(userDto) == [userDto EXCEPT !.password = Undefined]

\* user.password = newPassword
WithPassword(user, newPassword) == [user EXCEPT !.password = newPassword]

\* Mutant: the flag is flipped instead of set.
EmailConfirmed_Toggle(user) ==
    [user EXCEPT !.isEmailConfirmed = ~@, !.status = VERIFIED]

\* user.isEmailConfirmed = true; user.status = UserAccountStatus.VERIFIED
EmailConfirmed(user) ==
    [user EXCEPT !.isEmailConfirmed = TRUE, !.status = VERIFIED]

\* user.isPhoneNumberConfirmed = true; user.status = UserAccountStatus.VERIFIED
PhoneNumberConfirmed(user) ==
    [user EXCEPT !.isPhoneNumberConfirmed = TRUE, !.status = VERIFIED]

----------------------------------------------------------------------------
\* Handler plumbing

Free(r) == req[r].pc = "idle"

\* An incoming request is served by the first free slot.
Start(r) ==
    /\ Free(r)
    /\ \A q \in Requests : q < r => ~Free(q)
    /\ calls < MaxCalls

At(r, pc) == req[r].pc = pc

\* The handler in slot r continues at pc.
Goto(r, fields, pc, access) ==
    /\ req' = [req EXCEPT ![r] =
            [fields EXCEPT !.pc = pc, !.log = Append(fields.log, access)]]
    /\ reply' = NoReply

\* The handler in slot r ends: it throws `out`, or returns res ("ok").  Its
\* locals are gone and the slot is free.
Finish(r, fields, out, res, access) ==
    /\ req' = [req EXCEPT ![r] = Idle]
    /\ reply' = [op |-> fields.op, email |-> fields.email, out |-> out,
                 res |-> res, log |-> Append(fields.log, access)]

----------------------------------------------------------------------------
\* UserService.create

\* Mutant: the phone number is looked up first.
create_findEmail_PhoneNumberFirst(r, userDto) ==
    /\ Start(r)
    /\ LET userPhoneNumber == FindByPhoneNumber(users, userDto.phoneNumber)
           f == [Idle EXCEPT !.op = "create", !.userDto = userDto]
       IN  IF userPhoneNumber # NoUser
           THEN Finish(r, f, "ConflictPhoneNumber", NoUser, "read")
           ELSE Goto(r, f, "create_findPhoneNumber", "read")
    /\ calls' = calls + 1
    /\ UNCHANGED <<users, nextId>>

create_findEmail(r, userDto) ==
    /\ Start(r)
    /\ LET userEmail == FindByEmail(users, userDto.email)
           f == [Idle EXCEPT !.op = "create", !.userDto = userDto]
       IN  IF userEmail # NoUser
           THEN Finish(r, f, "ConflictEmail", NoUser, "read")
           ELSE Goto(r, f, "create_findPhoneNumber", "read")
    /\ calls' = calls + 1
    /\ UNCHANGED <<users, nextId>>

create_findPhoneNumber(r) ==
    /\ At(r, "create_findPhoneNumber")
    /\ LET userPhoneNumber == FindByPhoneNumber(users, req[r].userDto.phoneNumber)
       IN  IF userPhoneNumber # NoUser
           THEN Finish(r, req[r], "ConflictPhoneNumber", NoUser, "read")
           ELSE Goto(r, req[r], "create_save", "read")
    /\ UNCHANGED <<users, nextId, calls>>

create_save(r) ==
    /\ At(r, "create_save")
    /\ LET newUser == NewUser(nextId, req[r].userDto)
       IN  IF UniqueOk(users \cup {newUser})
           THEN /\ users' = users \cup {newUser}
                /\ Finish(r, req[r], "ok", newUser, "write")
           ELSE /\ users' = users
                /\ Finish(r, req[r], "QueryFailed", NoUser, "write")
    /\ nextId' = nextId + 1
    /\ UNCHANGED calls

----------------------------------------------------------------------------
\* UserService.findAll, findOne, getAllPrivateFiles

findAll(r) ==
    /\ Start(r)
    /\ Finish(r, [Idle EXCEPT !.op = "findAll"], "ok", NoUser, "read")
    /\ calls' = calls + 1
    /\ UNCHANGED <<users, nextId>>

findOne(r, email) ==
    /\ Start(r)
    /\ LET user == FindByEmail(users, email)
           f == [Idle EXCEPT !.op = "findOne", !.email = email]
       IN  IF user = NoUser
           THEN Finish(r, f, "NotFound", NoUser, "read")
           ELSE Finish(r, f, "ok", user, "read")
    /\ calls' = calls + 1
    /\ UNCHANGED <<users, nextId>>

getAllPrivateFiles(r, userId) ==
    /\ Start(r)
    /\ LET userWithFiles == FindById(users, userId)
           f == [Idle EXCEPT !.op = "getAllPrivateFiles"]
       IN  IF userWithFiles # NoUser
           THEN Finish(r, f, "ok", userWithFiles, "read")
           ELSE Finish(r, f, "NotFound", NoUser, "read")
    /\ calls' = calls + 1
    /\ UNCHANGED <<users, nextId>>

----------------------------------------------------------------------------
\* UserService.update

update_findUser(r, email, userDto) ==
    /\ Start(r)
    /\ LET user == FindByEmail(users, email)
           f == [Idle EXCEPT !.op = "update", !.email = email,
                             !.userDto = userDto, !.user = user]
       IN  IF user = NoUser
           THEN Finish(r, f, "NotFound", NoUser, "read")
           ELSE Goto(r, f, "update_findEmail", "read")
    /\ calls' = calls + 1
    /\ UNCHANGED <<users, nextId>>

\* Mutant: the record found is not compared with the record being updated.
update_findEmail_NoSelfCheck(r) ==
    /\ At(r, "update_findEmail")
    /\ LET userEmail == FindByEmail(users, req[r].userDto.email)
       IN  IF userEmail # NoUser
           THEN Finish(r, req[r], "ConflictEmail", NoUser, "read")
           ELSE Goto(r, req[r], "update_findPhoneNumber", "read")
    /\ UNCHANGED <<users, nextId, calls>>

update_findEmail(r) ==
    /\ At(r, "update_findEmail")
    /\ LET userEmail == FindByEmail(users, req[r].userDto.email)
       IN  IF userEmail # NoUser /\ userEmail.id # req[r].user.id
           THEN Finish(r, req[r], "ConflictEmail", NoUser, "read")
           ELSE Goto(r, req[r], "update_findPhoneNumber", "read")
    /\ UNCHANGED <<users, nextId, calls>>

update_findPhoneNumber(r) ==
    /\ At(r, "update_findPhoneNumber")
    /\ LET userPhoneNumber == FindByPhoneNumber(users, req[r].userDto.phoneNumber)
       IN  IF userPhoneNumber # NoUser /\ userPhoneNumber.id # req[r].user.id
           THEN Finish(r, req[r], "ConflictPhoneNumber", NoUser, "read")
           ELSE Goto(r, req[r], "update_update", "read")
    /\ UNCHANGED <<users, nextId, calls>>

\* delete userDto.password; await this.userRepository.update({ email }, userDto)
update_update(r) ==
    /\ At(r, "update_update")
    /\ LET userDto == StripPassword(req[r].userDto)
           f == [req[r] EXCEPT !.userDto = userDto]
           rows == UpdateRows(users, req[r].email, userDto)
       IN  IF UniqueOk(rows)
           THEN /\ users' = rows
                /\ Goto(r, f, "update_findUpdated", "write")
           ELSE /\ users' = users
                /\ Finish(r, f, "QueryFailed", NoUser, "write")
    /\ UNCHANGED <<nextId, calls>>

update_findUpdated(r) ==
    /\ At(r, "update_findUpdated")
    /\ Finish(r, req[r], "ok", FindById(users, req[r].user.id), "read")
    /\ UNCHANGED <<users, nextId, calls>>

----------------------------------------------------------------------------
\* UserService.updatePassword

updatePassword_findUser(r, email, newPassword) ==
    /\ Start(r)
    /\ LET user == FindByEmail(users, email)
           f == [Idle EXCEPT !.op = "updatePassword", !.email = email]
       IN  IF user = NoUser
           THEN Finish(r, f, "NotFound", NoUser, "read")
           ELSE Goto(r, [f EXCEPT !.user = WithPassword(user, newPassword)],
                     "updatePassword_save", "read")
    /\ calls' = calls + 1
    /\ UNCHANGED <<users, nextId>>

updatePassword_save(r) ==
    /\ At(r, "updatePassword_save")
    /\ LET rows == SaveRows(users, req[r].user)
       IN  IF UniqueOk(rows)
           THEN /\ users' = rows
                /\ Goto(r, req[r], "updatePassword_findUpdated", "write")
           ELSE /\ users' = users
                /\ Finish(r, req[r], "QueryFailed", NoUser, "write")
    /\ UNCHANGED <<nextId, calls>>

\* Mutant: the entity is saved a second time instead of being read back.
updatePassword_findUpdated_SaveAgain(r) ==
    /\ At(r, "updatePassword_findUpdated")
    /\ users' = SaveRows(users, req[r].user)
    /\ Finish(r, req[r], "ok", req[r].user, "write")
    /\ UNCHANGED <<nextId, calls>>

updatePassword_findUpdated(r) ==
    /\ At(r, "updatePassword_findUpdated")
    /\ Finish(r, req[r], "ok", FindById(users, req[r].user.id), "read")
    /\ UNCHANGED <<users, nextId, calls>>

----------------------------------------------------------------------------
\* UserService.markEmailAsConfirmed

markEmailAsConfirmed_findUser(r, email) ==
    /\ Start(r)
    /\ LET user == FindByEmail(users, email)
           f == [Idle EXCEPT !.op = "markEmailAsConfirmed", !.email = email]
       IN  IF user = NoUser
           THEN Finish(r, f, "NotFound", NoUser, "read")
           ELSE Goto(r, [f EXCEPT !.user = EmailConfirmed(user)],
                     "markEmailAsConfirmed_save", "read")
    /\ calls' = calls + 1
    /\ UNCHANGED <<users, nextId>>

markEmailAsConfirmed_save(r) ==
    /\ At(r, "markEmailAsConfirmed_save")
    /\ LET rows == SaveRows(users, req[r].user)
       IN  IF UniqueOk(rows)
           THEN /\ users' = rows
                /\ Goto(r, req[r], "markEmailAsConfirmed_findUpdated", "write")
           ELSE /\ users' = users
                /\ Finish(r, req[r], "QueryFailed", NoUser, "write")
    /\ UNCHANGED <<nextId, calls>>

markEmailAsConfirmed_findUpdated(r) ==
    /\ At(r, "markEmailAsConfirmed_findUpdated")
    /\ Finish(r, req[r], "ok", FindById(users, req[r].user.id), "read")
    /\ UNCHANGED <<users, nextId, calls>>

----------------------------------------------------------------------------
\* UserService.markPhoneNumberConfirmed

markPhoneNumberConfirmed_findUser(r, email) ==
    /\ Start(r)
    /\ LET user == FindByEmail(users, email)
           f == [Idle EXCEPT !.op = "markPhoneNumberConfirmed", !.email = email]
       IN  IF user = NoUser
           THEN Finish(r, f, "NotFound", NoUser, "read")
           ELSE Goto(r, [f EXCEPT !.user = PhoneNumberConfirmed(user)],
                     "markPhoneNumberConfirmed_save", "read")
    /\ calls' = calls + 1
    /\ UNCHANGED <<users, nextId>>

markPhoneNumberConfirmed_save(r) ==
    /\ At(r, "markPhoneNumberConfirmed_save")
    /\ LET rows == SaveRows(users, req[r].user)
       IN  IF UniqueOk(rows)
           THEN /\ users' = rows
                /\ Finish(r, req[r], "ok", req[r].user, "write")
           ELSE /\ users' = users
                /\ Finish(r, req[r], "QueryFailed", NoUser, "write")
    /\ UNCHANGED <<nextId, calls>>

----------------------------------------------------------------------------
\* UserService.remove

\* Mutant: the affected count is not looked at.
remove_NoAffectedCheck(r, email) ==
    /\ Start(r)
    /\ LET f == [Idle EXCEPT !.op = "remove", !.email = email]
       IN  /\ users' = DeleteRows(users, email)
           /\ Finish(r, f, "ok", NoUser, "write")
    /\ calls' = calls + 1
    /\ UNCHANGED nextId

remove(r, email) ==
    /\ Start(r)
    /\ LET f == [Idle EXCEPT !.op = "remove", !.email = email]
       IN  /\ users' = DeleteRows(users, email)
           /\ IF Affected(users, email) = 0
              THEN Finish(r, f, "NotFound", NoUser, "write")
              ELSE Finish(r, f, "ok", NoUser, "write")
    /\ calls' = calls + 1
    /\ UNCHANGED nextId

----------------------------------------------------------------------------
Init ==
    /\ users = {}
    /\ nextId = 1
    /\ calls = 0
    /\ req = [r \in Requests |-> Idle]
    /\ reply = NoReply

\* One repository call of the handler that runs in slot r.
Handle(r) ==
        \/ \E userDto \in CreateUserDtos : create_findEmail(r, userDto)
        \/ create_findPhoneNumber(r)
        \/ create_save(r)
        \/ findAll(r)
        \/ \E email \in Emails : findOne(r, email)
        \/ \E userId \in UserIds : getAllPrivateFiles(r, userId)
        \/ \E email \in Emails, userDto \in UpdateUserDtos :
                update_findUser(r, email, userDto)
        \/ update_findEmail(r)
        \/ update_findPhoneNumber(r)
        \/ update_update(r)
        \/ update_findUpdated(r)
        \/ \E email \in Emails, newPassword \in Passwords :
                updatePassword_findUser(r, email, newPassword)
        \/ updatePassword_save(r)
        \/ updatePassword_findUpdated(r)
        \/ \E email \in Emails : markEmailAsConfirmed_findUser(r, email)
        \/ markEmailAsConfirmed_save(r)
        \/ markEmailAsConfirmed_findUpdated(r)
        \/ \E email \in Emails : markPhoneNumberConfirmed_findUser(r, email)
        \/ markPhoneNumberConfirmed_save(r)
        \/ \E email \in Emails : remove(r, email)

Next == \E r \in Requests : Handle(r)

Spec == Init /\ [][Next]_vars

----------------------------------------------------------------------------
\* Vocabulary of the properties

HasEmail(rows, email) == \E u \in rows : u.email = email

HasPhoneNumber(rows, phoneNumber) == \E u \in rows : u.phoneNumber = phoneNumber

Stored(rows, id) == \E u \in rows : u.id = id

Conflicts == {"ConflictEmail", "ConflictPhoneNumber"}

----------------------------------------------------------------------------
----------------------------------------------------------------------------
\* C4: create looks the email up first and the phone number second, and the
\* first lookup that finds a record decides the outcome: ConflictEmail exactly
\* when the candidate's email is stored (whatever its phone number),
\* ConflictPhoneNumber exactly when the email was free and the phone number is
\* stored, and otherwise exactly one new record with the candidate's fields.
C4_CreateChecksEmailThenPhoneNumber ==
    [][\A r \in Requests :
        /\ \A userDto \in CreateUserDtos :
            create_findEmail(r, userDto) =>
                /\ reply'.out = "ConflictEmail" <=> HasEmail(users, userDto.email)
                /\ reply'.out # "ConflictPhoneNumber"
                /\ ~HasEmail(users, userDto.email) =>
                        req'[r].pc = "create_findPhoneNumber"
                /\ users' = users
        /\ create_findPhoneNumber(r) =>
                /\ reply'.out = "ConflictPhoneNumber"
                        <=> HasPhoneNumber(users, req[r].userDto.phoneNumber)
                /\ reply'.out # "ConflictEmail"
                /\ ~HasPhoneNumber(users, req[r].userDto.phoneNumber) =>
                        req'[r].pc = "create_save"
                /\ users' = users
        /\ (create_save(r)
              /\ ~HasEmail(users, req[r].userDto.email)
              /\ ~HasPhoneNumber(users, req[r].userDto.phoneNumber)) =>
                /\ reply'.out = "ok"
                /\ Cardinality(users' \ users) = 1
                /\ users \subseteq users'
                /\ \A n \in users' \ users :
                    /\ n = reply'.res
                    /\ ~Stored(users, n.id)
                    /\ n.email = req[r].userDto.email
                    /\ n.phoneNumber = req[r].userDto.phoneNumber
                    /\ n.password = req[r].userDto.password
    ]_vars

\* A registration whose email was free has just been refused for its phone
\* number.
C4_Witness ==
    /\ reply.op = "create" /\ reply.out = "ConflictPhoneNumber"
    /\ users # {}

----------------------------------------------------------------------------
\* C5: update raises ConflictEmail only for a patch whose email is stored on a
\* record other than the target, and ConflictPhoneNumber only for a patch
\* whose phone number is stored on another record; a patch field that is
\* absent, or equal to the target's stored value, raises no conflict, and an
\* update free of conflicts writes and returns without error.
C5_UpdateConflictsOnlyWithOtherRecords ==
    [][\A r \in Requests :
        LET userDto == req[r].userDto
            target == req[r].user.id
        IN
        /\ update_findEmail(r) =>
                /\ reply'.out = "ConflictEmail" =>
                        /\ userDto.email # Undefined
                        /\ \E u \in users : u.email = userDto.email /\ u.id # target
                /\ reply'.out # "ConflictPhoneNumber"
                /\ (\/ userDto.email = Undefined
                    \/ \E u \in users : u.id = target /\ u.email = userDto.email
                    \/ ~HasEmail(users, userDto.email)) =>
                        req'[r].pc = "update_findPhoneNumber"
        /\ update_findPhoneNumber(r) =>
                /\ reply'.out = "ConflictPhoneNumber" =>
                        /\ userDto.phoneNumber # Undefined
                        /\ \E u \in users :
                            u.phoneNumber = userDto.phoneNumber /\ u.id # target
                /\ reply'.out # "ConflictEmail"
                /\ (\/ userDto.phoneNumber = Undefined
                    \/ \E u \in users :
                            u.id = target /\ u.phoneNumber = userDto.phoneNumber
                    \/ ~HasPhoneNumber(users, userDto.phoneNumber)) =>
                        req'[r].pc = "update_update"
        /\ (update_update(r)
              /\ ~(\E u \in users :
                        u.email = userDto.email /\ u.email # req[r].email)
              /\ ~(\E v \in users :
                        v.phoneNumber = userDto.phoneNumber /\ v.email # req[r].email)) =>
                req'[r].pc = "update_findUpdated"
        /\ update_findUpdated(r) => reply'.out = "ok"
    ]_vars

\* An update whose patch repeats the target's own email passed the email
\* check while a second record is stored.
C5_Witness ==
    \E r \in Requests :
        /\ req[r].pc \in {"update_findPhoneNumber", "update_update"}
        /\ req[r].userDto.email = req[r].user.email
        /\ req[r].user \in users
        /\ Cardinality(users) = 2

----------------------------------------------------------------------------
\* C7: remove deletes the record with the given email and acknowledges when
\* there is one, and findOne for that email then finds nothing (NotFound);
\* remove signals NotFound and deletes nothing when no record has the email.
C7_RemoveThenFindOneNotFound ==
    [][\A r \in Requests, email \in Emails :
        /\ remove(r, email) =>
                IF HasEmail(users, email)
                THEN /\ reply'.out = "ok"
                     /\ users' = {u \in users : u.email # email}
                     /\ users' # users
                     /\ ~HasEmail(users', email)
                ELSE /\ reply'.out = "NotFound"
                     /\ users' = users
        /\ findOne(r, email) =>
                /\ users' = users
                /\ reply'.out = "NotFound" <=> ~HasEmail(users, email)
                /\ reply'.out = "ok" <=> HasEmail(users, email)
                /\ reply'.out = "ok" => reply'.res.email = email
    ]_vars

\* A remove has just acknowledged, and no record has its email any more.
C7_Witness ==
    /\ reply.op = "remove" /\ reply.out = "ok"
    /\ ~HasEmail(users, reply.email)

----------------------------------------------------------------------------
\* C2: the write of update leaves every stored password as it was and puts
\* the patch's email and phone number on the record update read; and a stored
\* password changes only in the save of updatePassword.
C2_PasswordChangesOnlyInUpdatePassword ==
    [][/\ \A r \in Requests :
            (update_update(r) /\ req'[r].pc = "update_findUpdated") =>
                /\ \A u \in users : \E v \in users' :
                        v.id = u.id /\ v.password = u.password
                /\ \E v \in users' :
                        /\ v.id = req[r].user.id
                        /\ req[r].userDto.email \in {Undefined, v.email}
                        /\ req[r].userDto.phoneNumber \in {Undefined, v.phoneNumber}
       /\ \A u \in users, v \in users' :
            (u.id = v.id /\ u.password # v.password) =>
                \E r \in Requests : updatePassword_save(r)
    ]_vars

----------------------------------------------------------------------------
\* C3: the status of a stored record changes only in the save of
\* markEmailAsConfirmed or markPhoneNumberConfirmed, which sets it to
\* VERIFIED; no step takes a stored status from VERIFIED to another value.
C3_StatusChangesOnlyToVerified ==
    [][\A u \in users, v \in users' :
        (u.id = v.id /\ u.status # v.status) =>
            /\ u.status # VERIFIED
            /\ v.status = VERIFIED
            /\ \E r \in Requests :
                markEmailAsConfirmed_save(r) \/ markPhoneNumberConfirmed_save(r)
    ]_vars

----------------------------------------------------------------------------
\* C6: a handler that ends NotFound or with a conflict has changed no stored
\* record, and a handler whose write went through has put every field it meant
\* to write on the record it read.
C6_NoPartialWrite ==
    [][\A r \in Requests :
        /\ (Handle(r) /\ reply'.out \in Conflicts \cup {"NotFound"}) =>
                /\ users' = users
                /\ \A i \in 1..(Len(reply'.log) - 1) : reply'.log[i] = "read"
        /\ (create_save(r) /\ reply'.out = "ok") => reply'.res \in users'
        /\ (update_update(r) /\ req'[r].pc = "update_findUpdated") =>
                \E v \in users' :
                    /\ v.id = req[r].user.id
                    /\ req[r].userDto.email \in {Undefined, v.email}
                    /\ req[r].userDto.phoneNumber \in {Undefined, v.phoneNumber}
        /\ (updatePassword_save(r) /\ req'[r].pc = "updatePassword_findUpdated") =>
                req[r].user \in users'
        /\ (markEmailAsConfirmed_save(r)
              /\ req'[r].pc = "markEmailAsConfirmed_findUpdated") =>
                req[r].user \in users'
        /\ (markPhoneNumberConfirmed_save(r) /\ reply'.out = "ok") =>
                req[r].user \in users'
    ]_vars

----------------------------------------------------------------------------
\* C8: markEmailAsConfirmed run twice in a row on a stored record leaves the
\* table as one run does: the record has isEmailConfirmed = TRUE and status
\* VERIFIED, its other columns and all other records are untouched, neither
\* save is refused, and both runs return the same record.
C8_MarkEmailAsConfirmedIdempotent ==
    \A u \in users :
        LET user1 == EmailConfirmed(FindByEmail(users, u.email))
            rows1 == SaveRows(users, user1)
            res1 == FindById(rows1, user1.id)
            user2 == EmailConfirmed(FindByEmail(rows1, u.email))
            rows2 == SaveRows(rows1, user2)
            res2 == FindById(rows2, user2.id)
        IN  /\ res1 = [u EXCEPT !.isEmailConfirmed = TRUE, !.status = VERIFIED]
            /\ rows1 = (users \ {u}) \cup {res1}
            /\ UniqueOk(rows1)
            /\ FindByEmail(rows1, u.email) # NoUser
            /\ rows2 = rows1
            /\ UniqueOk(rows2)
            /\ res2 = res1

\* A second markEmailAsConfirmed, alone in the server, has read the record as
\* the first one left it and is about to save it.
C8_Witness ==
    \E r \in Requests :
        /\ req[r].pc = "markEmailAsConfirmed_save"
        /\ req[r].user \in users
        /\ req[r].user.isEmailConfirmed /\ req[r].user.status = VERIFIED
        /\ \A q \in Requests \ {r} : Free(q)

----------------------------------------------------------------------------
\* Repository accesses of a handler

\* The handlers in flight and the handler that has just ended.
Runs == {[op |-> req[r].op, log |-> req[r].log, ended |-> FALSE] : r \in Requests}
            \cup {[op |-> reply.op, log |-> reply.log, ended |-> TRUE]}

Count(log, access) == Cardinality({i \in 1..Len(log) : log[i] = access})

ReadsAfterWrite(log) ==
    Cardinality({i \in 1..Len(log) :
        log[i] = "read" /\ \E j \in 1..(i - 1) : log[j] = "write"})

Refreshing == {"update", "updatePassword", "markEmailAsConfirmed"}

----------------------------------------------------------------------------
\* C10: a record whose identifier is not stored comes into the table only in
\* the save of create: no save of updatePassword, markEmailAsConfirmed or
\* markPhoneNumberConfirmed puts back a record that remove has deleted.
C10_OnlyCreateInsertsRecords ==
    [][\A v \in users' :
        ~Stored(users, v.id) => \E r \in Requests : create_save(r)
    ]_vars

====
